---- MODULE Spec2Model ----
(***************************************************************************)
(* PPOAgent (src/agents/PPO.py) driven through train() and learn(), with   *)
(* the Gaussian policy of src/models/nn.py.                                *)
(*                                                                         *)
(* Real numbers are fixed-point integers in hundredths (Unit = 1.00); a    *)
(* division rounds down, as a float operation rounds.  A float that may be *)
(* NaN is a sequence: <<v>> is the finite value v, <<>> is NaN.            *)
(* The networks are black boxes in the source's design: ValueNet and       *)
(* LogProb are fixed tables over small parameter identities, and an        *)
(* optimizer step moves a parameter set to any identity.                   *)
(***************************************************************************)
EXTENDS Integers, Sequences, FiniteSets, TLC

\* ------------------------------------------------------------------ bounds
MaxEpisodes == 2
MaxEpLen == 3

\* ------------------------------------------------------- program constants
Unit == 10 * 10
gamma == 99
clip_ratio == 20

Rewards == {0, Unit}
Actions == {0, 1}
Params == {0, 1}

\* ------------------------------------------------------------------ floats
NaN == <<>>
Fin(v) == <<v>>
IsNaN(x) == x = NaN

RECURSIVE SeqSum(_)
SeqSum(s) == IF s = <<>> THEN 0 ELSE Head(s) + SeqSum(Tail(s))

RECURSIVE ISqrtIn(_, _, _)
ISqrtIn(x, lo, hi) ==
    IF lo >= hi THEN lo
    ELSE LET mid == (lo + hi + 1) \div 2
         IN IF mid * mid <= x THEN ISqrtIn(x, mid, hi) ELSE ISqrtIn(x, lo, mid - 1)

\* floor of the square root
ISqrt(x) == ISqrtIn(x, 0, 46340)

\* torch.exp on a log-probability difference (in steps of 0.2), to 2 decimals
Exp(d) ==
    CASE d <= -2 -> 67
      [] d = -1 -> 82
      [] d = 0 -> 100
      [] d = 1 -> 122
      [] OTHER -> 149

\* product of a finite number and a float
FMul(x, y) == IF IsNaN(y) THEN NaN ELSE Fin((x * y[1]) \div Unit)

\* torch.min of two floats: NaN propagates
FMin(x, y) ==
    IF IsNaN(x) \/ IsNaN(y) THEN NaN ELSE IF x[1] <= y[1] THEN x ELSE y

\* tensor.mean() of a non-empty tensor of floats
FMean(t) ==
    IF \E i \in 1..Len(t) : IsNaN(t[i]) THEN NaN
    ELSE Fin(SeqSum([i \in 1..Len(t) |-> t[i][1]]) \div Len(t))

FNeg(x) == IF IsNaN(x) THEN NaN ELSE Fin(0 - x[1])

\* torch.clamp
Clamp(x, lo, hi) == IF x < lo THEN lo ELSE IF x > hi THEN hi ELSE x

\* ---------------------------------------------------------------- networks
\* ValueNetwork.forward: the value estimate of state s under parameters vp
ValueNet(vp, s) == ((vp + s) % 2) * Unit

\* GaussianPolicyNetwork.select_action: the log-probability (in steps of 0.2)
\* that parameters p give action a in state s
LogProb(p, s, a) == 0 - ((p + s + a) % 3)

\* ------------------------------------------------------------- environment
\* env.step(): the observation that follows s
env_next(s) == 1 - s

\* ------------------------------------------------------------------ buffer
\* ReplayBuffer.push: append in insertion order
push(buf, transition) == Append(buf, transition)

\* ReplayBuffer.sample(None, return_all=True): four parallel sequences
sample_all(buf) ==
    [states |-> [i \in 1..Len(buf) |-> buf[i].state],
     old_log_probs |-> [i \in 1..Len(buf) |-> buf[i].log_prob],
     rewards |-> [i \in 1..Len(buf) |-> buf[i].reward],
     dones |-> [i \in 1..Len(buf) |-> buf[i].done]]

\* ReplayBuffer.clear
clear(buf) == <<>>

\* TensorboardWriter.log_scalar(tag, value, step): the series keeps tag and step
log_scalar(lg, tag, step) == Append(lg, <<tag, step>>)

\* ----------------------------------------------------------------- returns
RECURSIVE rtg_loop(_, _, _, _, _)
rtg_loop(rewards, g, t, running, out) ==
    IF t = 0 THEN out
    ELSE LET r == rewards[t] + (g * running) \div Unit
         IN rtg_loop(rewards, g, t - 1, r, <<r>> \o out)

\* utils.asset.compute_rewards_to_go: one backward pass over the rewards
compute_rewards_to_go(rewards, g) == rtg_loop(rewards, g, Len(rewards), 0, <<>>)

\* variant: the discount factor is left out
returns_undiscounted(rewards) == compute_rewards_to_go(rewards, Unit)

\* PPO.py line 55
discounted_returns_of(rewards) == compute_rewards_to_go(rewards, gamma)

\* PPO.py line 60: (a - a.mean()) / (a.std() + 1e-6).  torch's std divides by
\* n - 1, so it is NaN for one element; with zero spread the numerators are 0.
Normalize(a) ==
    LET n == Len(a)
        S == SeqSum(a)
        D == [i \in 1..n |-> n * a[i] - S]
        Q == SeqSum([i \in 1..n |-> D[i] * D[i]])
    IN IF n = 1 THEN [i \in 1..n |-> NaN]
       ELSE IF Q = 0 THEN [i \in 1..n |-> Fin(0)]
       ELSE [i \in 1..n |-> Fin((Unit * D[i] * (n - 1)) \div ISqrt(Q * (n - 1)))]

\* PPO.py line 59-60
advantages_of(returns, values) ==
    Normalize([i \in 1..Len(returns) |-> returns[i] - values[i]])

\* PPO.py line 63: F.mse_loss
mse_loss(a, b) ==
    SeqSum([i \in 1..Len(a) |-> ((a[i] - b[i]) * (a[i] - b[i])) \div Unit]) \div Len(a)

\* PPO.py line 75
surr1(ratio, adv) == FMul(ratio, adv)

\* variant: the ratio is not clamped
surr2_unclipped(ratio, adv) == FMul(ratio, adv)

\* PPO.py line 76
surr2(ratio, adv) == FMul(Clamp(ratio, Unit - clip_ratio, Unit + clip_ratio), adv)

\* ------------------------------------------------------------------- state
VARIABLES
    memory, new_policy, old_policy, value_params, iter, log,
    pc, ret, episodes, episode, score, length, done, state,
    lv,
    env_ended, traj, env_closed

agent == <<memory, new_policy, old_policy, value_params, iter, log>>
frame == <<episodes, episode, score, length, done, state>>
env == <<env_ended, traj, env_closed>>
vars == <<memory, new_policy, old_policy, value_params, iter, log,
          pc, ret, episodes, episode, score, length, done, state,
          lv, env_ended, traj, env_closed>>

\* the locals of learn(), before any is assigned
LvInit ==
    [states |-> <<>>, old_log_probs |-> <<>>, rewards |-> <<>>, dones |-> <<>>,
     discounted_returns |-> <<>>, state_values |-> <<>>, advantages |-> <<>>,
     value_loss |-> 0, actions |-> <<>>, action_log_probs |-> <<>>,
     ratios |-> <<>>, objective |-> <<>>, policy_loss |-> Fin(0),
     steps |-> <<>>]

\* PPOAgent.__init__
Init ==
    /\ memory = <<>>
    /\ new_policy \in {Fin(p) : p \in Params}
    /\ old_policy = new_policy
    /\ value_params \in Params
    /\ iter = 0
    /\ log = <<>>
    /\ pc = "idle"
    /\ ret = "none"
    /\ episodes = 0
    /\ episode = 0
    /\ score = 0
    /\ length = 0
    /\ done = FALSE
    /\ state = 0
    /\ lv = LvInit
    /\ env_ended = FALSE
    /\ traj = <<>>
    /\ env_closed = FALSE

\* ------------------------------------------------------------------- train
\* train(env, episodes) is called on the constructed agent
TrainCall ==
    /\ pc = "idle"
    /\ \E n \in 0..MaxEpisodes : episodes' = n
    /\ episode' = 0
    /\ pc' = "loop"
    /\ UNCHANGED <<agent, ret, score, length, done, state, lv, env>>

\* for episode in range(episodes): ... env.reset(), whose first observation is 0;
\* after the loop: close, return
LoopHead ==
    /\ pc = "loop"
    /\ IF episode < episodes
       THEN /\ score' = 0
            /\ length' = 0
            /\ done' = FALSE
            /\ state' = 0
            /\ env_ended' = FALSE
            /\ traj' = <<>>
            /\ pc' = "rollout"
            /\ UNCHANGED env_closed
       ELSE /\ env_closed' = TRUE
            /\ pc' = "returned"
            /\ UNCHANGED <<score, length, done, state, env_ended, traj>>
    /\ UNCHANGED <<agent, ret, episodes, episode, lv>>

\* one pass of the body of `while not done`
RolloutStep ==
    /\ pc = "rollout"
    /\ ~done
    /\ ~IsNaN(old_policy)
    /\ length < MaxEpLen
    /\ \E a \in Actions, r \in Rewards, d \in BOOLEAN, tr \in BOOLEAN :
          /\ (length + 1 = MaxEpLen) => (d \/ tr)
          /\ memory' = push(memory, [state |-> state,
                                     log_prob |-> LogProb(old_policy[1], state, a),
                                     reward |-> r, done |-> d])
          /\ traj' = Append(traj, [state |-> state, action |-> a,
                                   reward |-> r, done |-> d])
          /\ env_ended' = (env_ended \/ d \/ tr)
          /\ score' = score + r
          /\ done' = d
    /\ state' = env_next(state)
    /\ length' = length + 1
    /\ UNCHANGED <<new_policy, old_policy, value_params, iter, log,
                   pc, ret, episodes, episode, lv, env_closed>>

\* select_action on NaN parameters: torch.distributions.Normal rejects a NaN mean
RolloutRaise ==
    /\ pc = "rollout"
    /\ ~done
    /\ IsNaN(old_policy)
    /\ pc' = "raised"
    /\ UNCHANGED <<agent, ret, frame, lv, env>>

\* the loop is left; self.learn() is called
TrainLearnCall ==
    /\ pc = "rollout"
    /\ done
    /\ pc' = "learn_entry"
    /\ ret' = "train"
    /\ UNCHANGED <<agent, frame, lv, env>>

\* the episode's two scalars, and the next value of the loop variable
EpisodeEnd ==
    /\ pc = "episode_end"
    /\ log' = log_scalar(log_scalar(log, "Episode/Return", episode),
                         "Episode/Length", episode)
    /\ episode' = episode + 1
    /\ pc' = "loop"
    /\ UNCHANGED <<memory, new_policy, old_policy, value_params, iter,
                   ret, episodes, score, length, done, state, lv, env>>

\* ------------------------------------------------------------------- learn
\* learn() is called by the agent's owner, outside train()
ApiLearnCall ==
    /\ pc \in {"idle", "returned"}
    /\ ret' = pc
    /\ pc' = "learn_entry"
    /\ UNCHANGED <<agent, frame, lv, env>>

\* where learn() returns to
ReturnSite == IF ret = "train" THEN "episode_end" ELSE ret

\* variant: the value step precedes the forward pass
LearnOrder_value_step_first ==
    <<"value_step", "returns_values", "advantage", "value_loss",
      "policy_loss", "policy_step", "sync", "log", "clear">>

\* the statements of learn() after the buffer is read, in program order
LearnOrder ==
    <<"returns_values", "advantage", "value_loss", "value_step",
      "policy_loss", "policy_step", "sync", "log", "clear">>

IndexOf(label) == CHOOSE i \in 1..Len(LearnOrder) : LearnOrder[i] = label

After(label) ==
    IF IndexOf(label) = Len(LearnOrder) THEN ReturnSite
    ELSE LearnOrder[IndexOf(label) + 1]

At(label) == pc = label /\ pc' = After(label)

Did(label) == \E i \in 1..Len(lv.steps) : lv.steps[i] = label

\* variant: the empty-buffer return still counts an update
LearnEntry_counts ==
    /\ pc = "learn_entry"
    /\ IF Len(memory) = 0
       THEN /\ pc' = ReturnSite
            /\ iter' = iter + 1
            /\ lv' = LvInit
       ELSE /\ pc' = LearnOrder[1]
            /\ iter' = iter
            /\ lv' = [LvInit EXCEPT !.states = sample_all(memory).states,
                                    !.old_log_probs = sample_all(memory).old_log_probs,
                                    !.rewards = sample_all(memory).rewards,
                                    !.dones = sample_all(memory).dones]
    /\ UNCHANGED <<memory, new_policy, old_policy, value_params, log,
                   ret, frame, env>>

\* lines 42-52: return on an empty buffer, else read the whole buffer
LearnEntry ==
    /\ pc = "learn_entry"
    /\ IF Len(memory) = 0
       THEN /\ pc' = ReturnSite
            /\ lv' = LvInit
       ELSE /\ pc' = LearnOrder[1]
            /\ lv' = [LvInit EXCEPT !.states = sample_all(memory).states,
                                    !.old_log_probs = sample_all(memory).old_log_probs,
                                    !.rewards = sample_all(memory).rewards,
                                    !.dones = sample_all(memory).dones]
    /\ UNCHANGED <<agent, ret, frame, env>>

\* lines 55-56: returns-to-go, and the value forward pass
LearnReturnsValues ==
    /\ At("returns_values")
    /\ lv' = [lv EXCEPT
                !.discounted_returns = discounted_returns_of(lv.rewards),
                !.state_values = [i \in 1..Len(lv.states) |->
                                     ValueNet(value_params, lv.states[i])],
                !.steps = Append(@, "returns_values")]
    /\ UNCHANGED <<agent, ret, frame, env>>

\* lines 59-60
LearnAdvantage ==
    /\ At("advantage")
    /\ lv' = [lv EXCEPT
                !.advantages = advantages_of(lv.discounted_returns, lv.state_values),
                !.steps = Append(@, "advantage")]
    /\ UNCHANGED <<agent, ret, frame, env>>

\* line 63
LearnValueLoss ==
    /\ At("value_loss")
    /\ lv' = [lv EXCEPT
                !.value_loss = mse_loss(lv.discounted_returns, lv.state_values),
                !.steps = Append(@, "value_loss")]
    /\ UNCHANGED <<agent, ret, frame, env>>

\* lines 66-68: the value optimizer moves the value parameters
LearnValueStep ==
    /\ At("value_step")
    /\ \E vp \in Params : value_params' = vp
    /\ lv' = [lv EXCEPT !.steps = Append(@, "value_step")]
    /\ UNCHANGED <<memory, new_policy, old_policy, iter, log, ret, frame, env>>

\* lines 71-82: new_policy.select_action(states, return_entropy=True) draws an
\* action per state with rsample() and returns the log-probability of that
\* draw; then the ratios, the two surrogates and the policy loss
LearnPolicyLoss ==
    /\ At("policy_loss")
    /\ ~IsNaN(new_policy)
    /\ \E acts \in [1..Len(lv.states) -> Actions] :
          LET lps == [i \in 1..Len(lv.states) |->
                         LogProb(new_policy[1], lv.states[i], acts[i])]
              rts == [i \in 1..Len(lv.states) |->
                         Exp(lps[i] - lv.old_log_probs[i])]
              obj == [i \in 1..Len(lv.states) |->
                         FMin(surr1(rts[i], lv.advantages[i]),
                              surr2(rts[i], lv.advantages[i]))]
          IN lv' = [lv EXCEPT
                      !.actions = acts,
                      !.action_log_probs = lps,
                      !.ratios = rts,
                      !.objective = obj,
                      !.policy_loss = FNeg(FMean(obj)),
                      !.steps = Append(@, "policy_loss")]
    /\ UNCHANGED <<agent, ret, frame, env>>

\* lines 85-87: the policy optimizer moves the current parameters; a NaN loss
\* gives NaN gradients and NaN parameters.  backward() frees the graph: the
\* tensors of lines 59-77 are read no more, and of the losses the log series
\* keeps no value
LearnPolicyStep ==
    /\ At("policy_step")
    /\ IF IsNaN(lv.policy_loss)
       THEN new_policy' = NaN
       ELSE \E p \in Params : new_policy' = Fin(p)
    /\ lv' = [lv EXCEPT
                !.actions = <<>>, !.action_log_probs = <<>>, !.ratios = <<>>,
                !.objective = <<>>, !.advantages = <<>>,
                !.policy_loss = Fin(0), !.value_loss = 0,
                !.steps = Append(@, "policy_step")]
    /\ UNCHANGED <<memory, old_policy, value_params, iter, log, ret, frame, env>>

\* variant: the behavior parameters are not overwritten
LearnSync_skipped ==
    /\ At("sync")
    /\ old_policy' = old_policy
    /\ lv' = [lv EXCEPT !.steps = Append(@, "sync")]
    /\ UNCHANGED <<memory, new_policy, value_params, iter, log, ret, frame, env>>

\* line 90: old_policy.load_state_dict(new_policy.state_dict())
LearnSync ==
    /\ At("sync")
    /\ old_policy' = new_policy
    /\ lv' = [lv EXCEPT !.steps = Append(@, "sync")]
    /\ UNCHANGED <<memory, new_policy, value_params, iter, log, ret, frame, env>>

\* variant: the update counter is not advanced
LearnLog_stale_step ==
    /\ At("log")
    /\ log' = log_scalar(log_scalar(log_scalar(log, "Loss/Policy", iter),
                                    "Loss/Entropy", iter), "Loss/Value", iter)
    /\ iter' = iter
    /\ lv' = [lv EXCEPT !.steps = Append(@, "log")]
    /\ UNCHANGED <<memory, new_policy, old_policy, value_params, ret, frame, env>>

\* lines 93-96
LearnLog ==
    /\ At("log")
    /\ log' = log_scalar(log_scalar(log_scalar(log, "Loss/Policy", iter),
                                    "Loss/Entropy", iter), "Loss/Value", iter)
    /\ iter' = iter + 1
    /\ lv' = [lv EXCEPT !.steps = Append(@, "log")]
    /\ UNCHANGED <<memory, new_policy, old_policy, value_params, ret, frame, env>>

\* variant: the buffer is not cleared
LearnClear_keeps ==
    /\ At("clear")
    /\ memory' = memory
    /\ lv' = LvInit
    /\ UNCHANGED <<new_policy, old_policy, value_params, iter, log, ret, frame, env>>

\* line 99, and the return: the locals die
LearnClear ==
    /\ At("clear")
    /\ memory' = clear(memory)
    /\ lv' = LvInit
    /\ UNCHANGED <<new_policy, old_policy, value_params, iter, log, ret, frame, env>>

Next ==
    \/ TrainCall
    \/ LoopHead
    \/ RolloutStep
    \/ RolloutRaise
    \/ TrainLearnCall
    \/ EpisodeEnd
    \/ ApiLearnCall
    \/ LearnEntry
    \/ LearnReturnsValues
    \/ LearnAdvantage
    \/ LearnValueLoss
    \/ LearnValueStep
    \/ LearnPolicyLoss
    \/ LearnPolicyStep
    \/ LearnSync
    \/ LearnLog
    \/ LearnClear

Spec == Init /\ [][Next]_vars

\* ------------------------------------------------------------ claim checks
InLearn == \E i \in 1..Len(LearnOrder) : pc = LearnOrder[i]

Pos(label) == CHOOSE i \in 1..Len(lv.steps) : lv.steps[i] = label

Before(a, b) == Did(b) => (Did(a) /\ Pos(a) < Pos(b))

Count(label) == Cardinality({i \in 1..Len(lv.steps) : lv.steps[i] = label})

LossSteps(tag) == LET Tagged(e) == e[1] = tag IN SelectSeq(log, Tagged)

\* C1: the buffer is empty when train's learn() has returned and when an
\* episode's rollout starts, during a rollout it holds one transition per step
\* taken, and at learn() entry it holds exactly the episode's transitions, in
\* the order the environment produced them.
C1_BufferHoldsOneEpisode ==
    /\ pc = "episode_end" => memory = <<>>
    /\ (pc = "rollout" /\ length = 0) => memory = <<>>
    /\ pc = "rollout" => Len(memory) = length
    /\ (pc = "learn_entry" /\ ret = "train") =>
          /\ Len(memory) = Len(traj)
          /\ \A i \in 1..Len(memory) :
                /\ memory[i].state = traj[i].state
                /\ memory[i].reward = traj[i].reward
                /\ memory[i].done = traj[i].done
                /\ memory[i].log_prob =
                      LogProb(old_policy[1], traj[i].state, traj[i].action)

C1_Witness ==
    /\ pc = "learn_entry"
    /\ ret = "train"
    /\ episode = 1
    /\ Len(memory) = 3

C2_Synced ==
    (pc \in {"idle", "loop", "rollout", "learn_entry", "episode_end",
             "returned", "raised"} \/ Did("sync")) => old_policy = new_policy

C2_Step ==
    /\ old_policy' # old_policy =>
          (pc = "sync" /\ old_policy' = new_policy /\ new_policy' = new_policy)
    /\ pc \in {"loop", "rollout"} => UNCHANGED <<new_policy, old_policy>>

\* C2: the behavior parameters equal the current parameters after construction,
\* at every rollout step and after every learn(); they change only at the sync
\* step, to the current parameters; neither set changes during a rollout.
C2_BehaviorIsCopy == [](C2_Synced) /\ [][C2_Step]_vars

C2_Witness ==
    /\ pc = "rollout"
    /\ episode = 1
    /\ length = 2
    /\ old_policy = new_policy
    /\ old_policy = Fin(1)

\* C3: for every stored transition, the action whose log-probability learn()
\* puts in the ratio is the action chosen for that transition in the rollout.
C3_SameActions ==
    (Did("policy_loss") /\ ~Did("policy_step") /\ ret = "train") =>
        \A i \in 1..Len(lv.actions) : lv.actions[i] = traj[i].action

\* C4: train leaves the rollout loop at the step where the environment reports
\* the end of the episode (done or truncated), and no episode aborts it, so
\* that N episodes are N resets and N learn() calls.
C4_EveryEpisodeEndIsSeen ==
    /\ env_ended => done
    /\ pc # "raised"

C5_Counted ==
    /\ \A tag \in {"Loss/Policy", "Loss/Entropy", "Loss/Value"} :
          /\ Len(LossSteps(tag)) = iter
          /\ \A k \in 1..iter : LossSteps(tag)[k][2] = k - 1
    /\ pc = "returned" => iter = episodes
    /\ pc = "episode_end" => iter = episode + 1
    /\ pc \in {"loop", "rollout"} => iter = episode

\* C5: after train(env, N) on a fresh agent iter = N; iter never decreases and
\* grows by one per episode; the k-th update's three scalars carry step k-1.
C5_UpdatesCounted == [](C5_Counted) /\ [][iter' = iter \/ iter' = iter + 1]_vars

C5_Witness ==
    /\ pc = "returned"
    /\ episodes = 2
    /\ iter = 2
    /\ Len(log) = 10

\* C6: learn() entered with an empty buffer returns at once and changes neither
\* parameter set, nor the update counter, nor the buffer, nor the log.
C6_EmptyLearnIsNoOp ==
    [][(pc = "learn_entry" /\ Len(memory) = 0) =>
          (pc' = ReturnSite /\
           UNCHANGED <<new_policy, old_policy, value_params, iter, memory, log>>)]_vars

C6_Witness ==
    /\ pc = "returned"
    /\ ret = "returned"
    /\ iter = 2
    /\ memory = <<>>

\* C7: the normalized advantages learn() computes are finite, for a buffer of
\* one transition and for a batch of equal advantages too.
C7_FiniteAdvantages ==
    (Did("advantage") /\ ~Did("policy_step")) =>
        \A i \in 1..Len(lv.advantages) : ~IsNaN(lv.advantages[i])

C9_ClippedObjective ==
    /\ FMin(surr1(150, Fin(100)), surr2(150, Fin(100))) = Fin(120)
    /\ (Did("policy_loss") /\ ~Did("policy_step")) =>
          /\ \A i \in 1..Len(lv.objective) :
                LET r == lv.ratios[i]
                    A == lv.advantages[i]
                IN ~IsNaN(A) =>
                      /\ (r > 120 /\ A[1] > 0) =>
                            lv.objective[i] = Fin((120 * A[1]) \div Unit)
                      /\ (r > 120 /\ A[1] < 0) =>
                            lv.objective[i] = Fin((r * A[1]) \div Unit)
                      /\ \/ lv.objective[i] = Fin((r * A[1]) \div Unit)
                         \/ lv.objective[i] = Fin((Clamp(r, 80, 120) * A[1]) \div Unit)
                      /\ lv.objective[i][1] <= (r * A[1]) \div Unit
                      /\ lv.objective[i][1] <= (Clamp(r, 80, 120) * A[1]) \div Unit
          /\ (\A i \in 1..Len(lv.objective) : ~IsNaN(lv.objective[i])) =>
                lv.policy_loss =
                    Fin(0 - (SeqSum([i \in 1..Len(lv.objective) |->
                                        lv.objective[i][1]]) \div Len(lv.objective)))

C9_Witness ==
    /\ Did("policy_loss")
    /\ ~Did("policy_step")
    /\ \E i, j \in 1..Len(lv.objective) :
          /\ ~IsNaN(lv.advantages[i])
          /\ lv.ratios[i] > 120 /\ lv.advantages[i][1] > 0
          /\ lv.ratios[j] > 120 /\ lv.advantages[j][1] < 0
          /\ lv.objective[i][1] < (lv.ratios[i] * lv.advantages[i][1]) \div Unit

\* C10: in an update, the advantage and the value loss come from the one value
\* forward pass, taken with the parameters the value step has not yet moved;
\* the order is forward pass, value step, policy step, sync, buffer clear.
C10_OneForwardPassThenOrder ==
    /\ InLearn => Count("returns_values") <= 1
    /\ (Did("returns_values") /\ ~Did("value_step")) =>
          \A i \in 1..Len(lv.states) :
              lv.state_values[i] = ValueNet(value_params, lv.states[i])
    /\ (Did("advantage") /\ ~Did("policy_step")) =>
          lv.advantages =
              Normalize([i \in 1..Len(lv.states) |->
                            lv.discounted_returns[i] - lv.state_values[i]])
    /\ (Did("value_loss") /\ ~Did("policy_step")) =>
          lv.value_loss = mse_loss(lv.discounted_returns, lv.state_values)
    /\ Before("returns_values", "advantage")
    /\ Before("returns_values", "value_loss")
    /\ Before("returns_values", "value_step")
    /\ Before("value_step", "policy_step")
    /\ Before("policy_step", "sync")
    /\ Did("sync") => memory # <<>>
    /\ (pc = "episode_end") => memory = <<>>

C10_Witness ==
    /\ pc = "clear"
    /\ Len(memory) = 2
    /\ lv.steps = <<"returns_values", "advantage", "value_loss", "value_step",
                    "policy_loss", "policy_step", "sync", "log">>
    /\ value_params # 0

====
